---- MODULE Spec2Model ----
(***************************************************************************)
(* Model of the training driver train.py: setup, the epoch loop (phases,   *)
(* learning-rate scheduler step, best checkpoint, periodic checkpoint,     *)
(* early stopping) and the finalisation that follows the loop.             *)
(* Accuracies and losses are small naturals standing for the floats that   *)
(* the phase functions return; the model and optimizer states are version  *)
(* counters advanced by every call that mutates them.                      *)
(***************************************************************************)
EXTENDS Integers, Sequences, FiniteSets

\* ---------------------------------------------------------------- bounds
MaxStart == 2
MaxEpochs == 4
MaxPatience == 2
MaxFreq == 2
MaxAcc == 2
MaxLoss == 1
MaxKeep == 2

\* ------------------------------------------------------------- constants
\* best_val_acc = 0.0
InitialBest == 0
\* a name that has not been bound yet (val_acc, val_loss, epoch)
Undef == -1
\* no file of that name in checkpoint_dir
NoFile == [epoch |-> Undef, model |-> Undef, optimizer |-> <<Undef, Undef>>]

VARIABLES
    config,            \* the parsed options
    pc,                \* position of the script
    phase_idx,         \* position of "for phase in phases" (1-based)
    epoch,             \* loop variable of the epoch loop
    writer,            \* "SummaryWriter", "None" or "closed"
    val_acc_history,
    best_val_acc,
    val_acc,
    val_loss,
    model_state,       \* version of model.state_dict()
    optimizer_state,   \* <<optimizer steps taken, scheduler steps taken>>
    save_best,         \* content of save_best.pth
    periodic_files,    \* the save_XXX.pth files: records [name, ckpt]
    log,               \* calls made in the current epoch, in order
    written,           \* checkpoints written in the current epoch
    epochs_run,        \* epoch indices the loop has processed, in order
    val_loss_epoch,    \* epoch whose validation phase produced val_loss
    sched_arg,         \* argument of the last scheduler.step call
    best_epochs,       \* epochs stored by the writes of save_best.pth
    periodic_epochs,   \* epochs stored by the periodic writes
    early_stopped      \* the loop was left by the break

vars == <<config, pc, phase_idx, epoch, writer, val_acc_history, best_val_acc,
          val_acc, val_loss, model_state, optimizer_state, save_best,
          periodic_files, log, written, epochs_run, val_loss_epoch, sched_arg,
          best_epochs, periodic_epochs, early_stopped>>

Configs ==
    [start_epoch : 0..MaxStart,
     num_epochs : 0..MaxEpochs,
     early_stopping_patience : 1..MaxPatience,
     checkpoint_frequency : 1..MaxFreq,
     has_validation : BOOLEAN,
     lr_scheduler : {"plateau", "multistep"},
     no_tensorboard : BOOLEAN]

\* ------------------------------------------------------- pure operators

\* variant: the validation phase listed before the train phase
Phases_validation_first(has_validation) ==
    IF has_validation THEN <<"validation", "train">> ELSE <<"train">>

\* phases = ['train', 'validation'] if 'validation' in data_loaders else ['train']
Phases(has_validation) ==
    IF has_validation THEN <<"train", "validation">> ELSE <<"train">>

\* assert 'validation' in phases, reached only for the plateau scheduler
SchedulerSetupOk(lr_scheduler, has_validation) ==
    lr_scheduler = "plateau" => has_validation

\* variant: the loop variable advances by two
NextEpoch_skip(e) == e + 2

\* range(config.start_epoch, config.num_epochs+1): membership and successor
InRange(e, num_epochs) == e < num_epochs + 1

NextEpoch(e) == e + 1

\* variant: every scheduler is stepped with the epoch index
SchedulerArg_epoch(lr_scheduler, loss, e) == e

\* scheduler.step(val_loss) for plateau, scheduler.step(epoch) otherwise
SchedulerArg(lr_scheduler, loss, e) ==
    IF lr_scheduler = "plateau" THEN loss ELSE e

\* variant: a tie with the best accuracy also counts as a new best
IsNewBest_ties(has_validation, acc, best) ==
    has_validation /\ acc >= best

\* 'validation' in phases and val_acc > best_val_acc
IsNewBest(has_validation, acc, best) ==
    has_validation /\ acc > best

\* variant: the optimizer state is the one captured before the scheduler step
SaveCheckpoint_stale_optimizer(e, model, optimizer) ==
    [epoch |-> e, model |-> model, optimizer |-> <<optimizer[1], optimizer[2] - 1>>]

\* save_checkpoint(path, epoch, model.state_dict(), optimizer.state_dict())
SaveCheckpoint(e, model, optimizer) ==
    [epoch |-> e, model |-> model, optimizer |-> optimizer]

\* variant: the test uses the 1-based epoch number of the file name
IsPeriodic_one_based(e, frequency) == (e + 1) % frequency = 0

\* epoch % config.checkpoint_frequency == 0
IsPeriodic(e, frequency) == e % frequency = 0

\* 'save_{:03d}.pth'.format(epoch+1)
PeriodicName(e) == e + 1

\* val_acc_history[-k:]
LastK(s, k) ==
    IF k = 0 \/ k >= Len(s) THEN s ELSE SubSeq(s, Len(s) - k + 1, Len(s))

\* all(acc < best_val_acc for acc in last_val_acc)
AllBelow(s, best) == \A i \in 1..Len(s) : s[i] < best

\* epoch > patience and all of the last `patience` accuracies below the best
ShouldStop(e, patience, history, best) ==
    e > patience /\ AllBelow(LastK(history, patience), best)

\* cleanup_checkpoint_dir(config): keeps the `keep` most recent periodic files
CleanupCheckpointDir(files, keep) ==
    {f \in files : Cardinality({g \in files : g.name > f.name}) < keep}

\* ------------------------------------------------------------- actions

Init ==
    /\ config \in Configs
    /\ pc = "setup"
    /\ phase_idx = 1
    /\ epoch = Undef
    /\ writer = "None"
    /\ val_acc_history = <<>>
    /\ best_val_acc = InitialBest
    /\ val_acc = Undef
    /\ val_loss = Undef
    /\ model_state = 0
    /\ optimizer_state = <<0, 0>>
    /\ save_best = NoFile
    /\ periodic_files = {}
    /\ log = <<>>
    /\ written = <<>>
    /\ epochs_run = <<>>
    /\ val_loss_epoch = Undef
    /\ sched_arg = <<"none", Undef>>
    /\ best_epochs = <<>>
    /\ periodic_epochs = <<>>
    /\ early_stopped = FALSE

\* lines 49-128: writer, scheduler construction, history, entry of the loop
Setup ==
    /\ pc = "setup"
    /\ IF ~SchedulerSetupOk(config.lr_scheduler, config.has_validation)
       THEN /\ pc' = "aborted"
            /\ UNCHANGED <<epoch, epochs_run>>
       ELSE IF InRange(config.start_epoch, config.num_epochs)
       THEN /\ pc' = "phases"
            /\ epoch' = config.start_epoch
            /\ epochs_run' = <<config.start_epoch>>
       ELSE /\ pc' = "finalise"
            /\ UNCHANGED <<epoch, epochs_run>>
    /\ writer' = IF config.no_tensorboard THEN "None" ELSE "SummaryWriter"
    /\ val_acc_history' = <<>>
    /\ best_val_acc' = InitialBest
    /\ phase_idx' = 1
    /\ UNCHANGED <<config, val_acc, val_loss, model_state, optimizer_state,
                   save_best, periodic_files, log, written, val_loss_epoch,
                   sched_arg, best_epochs, periodic_epochs, early_stopped>>

\* advance "for phase in phases"
PhaseAdvance ==
    IF phase_idx = Len(Phases(config.has_validation))
    THEN pc' = "scheduler" /\ phase_idx' = phase_idx
    ELSE pc' = "phases" /\ phase_idx' = phase_idx + 1

\* train_epoch(...): one optimizer step sequence over the training set
TrainPhase ==
    /\ pc = "phases"
    /\ Phases(config.has_validation)[phase_idx] = "train"
    /\ model_state' = model_state + 1
    /\ optimizer_state' = <<optimizer_state[1] + 1, optimizer_state[2]>>
    /\ log' = Append(log, "train")
    /\ PhaseAdvance
    /\ UNCHANGED <<config, epoch, writer, val_acc_history, best_val_acc,
                   val_acc, val_loss, save_best, periodic_files, written,
                   epochs_run, val_loss_epoch, sched_arg, best_epochs,
                   periodic_epochs, early_stopped>>

\* validation_epoch(...) and val_acc_history.append(val_acc)
ValidationPhase ==
    /\ pc = "phases"
    /\ Phases(config.has_validation)[phase_idx] = "validation"
    /\ \E acc \in 0..MaxAcc, loss \in 0..MaxLoss :
          /\ val_acc' = acc
          /\ val_loss' = loss
          /\ val_acc_history' = Append(val_acc_history, acc)
    /\ val_loss_epoch' = epoch
    /\ log' = Append(log, "validation")
    /\ PhaseAdvance
    /\ UNCHANGED <<config, epoch, writer, best_val_acc, model_state,
                   optimizer_state, save_best, periodic_files, written,
                   epochs_run, sched_arg, best_epochs, periodic_epochs,
                   early_stopped>>

\* lines 162-166: scheduler.step; an unbound val_loss raises NameError
SchedulerStep ==
    /\ pc = "scheduler"
    /\ IF config.lr_scheduler = "plateau" /\ val_loss = Undef
       THEN /\ pc' = "crashed"
            /\ UNCHANGED <<sched_arg, optimizer_state, log>>
       ELSE /\ pc' = "best"
            /\ sched_arg' = <<config.lr_scheduler,
                              SchedulerArg(config.lr_scheduler, val_loss, epoch)>>
            /\ optimizer_state' = <<optimizer_state[1], optimizer_state[2] + 1>>
            /\ log' = Append(log, "scheduler")
    /\ UNCHANGED <<config, phase_idx, epoch, writer, val_acc_history,
                   best_val_acc, val_acc, val_loss, model_state, save_best,
                   periodic_files, written, epochs_run, val_loss_epoch,
                   best_epochs, periodic_epochs, early_stopped>>

\* lines 182-187: best checkpoint
BestCheckpoint ==
    /\ pc = "best"
    /\ pc' = "periodic"
    /\ IF IsNewBest(config.has_validation, val_acc, best_val_acc)
       THEN /\ save_best' = SaveCheckpoint(epoch, model_state, optimizer_state)
            /\ best_val_acc' = val_acc
            /\ log' = Append(log, "save_best")
            /\ written' = Append(written,
                                 SaveCheckpoint(epoch, model_state, optimizer_state))
            /\ best_epochs' = Append(best_epochs,
                                     SaveCheckpoint(epoch, model_state, optimizer_state).epoch)
       ELSE UNCHANGED <<save_best, best_val_acc, log, written, best_epochs>>
    /\ UNCHANGED <<config, phase_idx, epoch, writer, val_acc_history, val_acc,
                   val_loss, model_state, optimizer_state, periodic_files,
                   epochs_run, val_loss_epoch, sched_arg, periodic_epochs,
                   early_stopped>>

\* lines 189-194: periodic checkpoint, then cleanup_checkpoint_dir
PeriodicCheckpoint ==
    /\ pc = "periodic"
    /\ pc' = "earlystop"
    /\ IF IsPeriodic(epoch, config.checkpoint_frequency)
       THEN /\ \E keep \in 1..MaxKeep :
                 periodic_files' = CleanupCheckpointDir(
                     {f \in periodic_files : f.name # PeriodicName(epoch)}
                     \cup {[name |-> PeriodicName(epoch),
                            ckpt |-> SaveCheckpoint(epoch, model_state, optimizer_state)]},
                     keep)
            /\ log' = log \o <<"save_periodic", "cleanup">>
            /\ written' = Append(written,
                                 SaveCheckpoint(epoch, model_state, optimizer_state))
            /\ periodic_epochs' = Append(periodic_epochs,
                                         SaveCheckpoint(epoch, model_state, optimizer_state).epoch)
       ELSE UNCHANGED <<periodic_files, log, written, periodic_epochs>>
    /\ UNCHANGED <<config, phase_idx, epoch, writer, val_acc_history,
                   best_val_acc, val_acc, val_loss, model_state,
                   optimizer_state, save_best, epochs_run, val_loss_epoch,
                   sched_arg, best_epochs, early_stopped>>

\* lines 196-203 and the loop header: break, next epoch, or range exhausted
EarlyStopping ==
    /\ pc = "earlystop"
    /\ IF ShouldStop(epoch, config.early_stopping_patience, val_acc_history,
                     best_val_acc)
       THEN /\ pc' = "finalise"
            /\ early_stopped' = TRUE
            /\ UNCHANGED <<epoch, phase_idx, log, written, epochs_run>>
       ELSE IF InRange(NextEpoch(epoch), config.num_epochs)
       THEN /\ pc' = "phases"
            /\ epoch' = NextEpoch(epoch)
            /\ phase_idx' = 1
            /\ log' = <<>>
            /\ written' = <<>>
            /\ epochs_run' = Append(epochs_run, NextEpoch(epoch))
            /\ UNCHANGED early_stopped
       ELSE /\ pc' = "finalise"
            /\ UNCHANGED <<epoch, phase_idx, log, written, epochs_run,
                           early_stopped>>
    /\ UNCHANGED <<config, writer, val_acc_history, best_val_acc, val_acc,
                   val_loss, model_state, optimizer_state, save_best,
                   periodic_files, val_loss_epoch, sched_arg, best_epochs,
                   periodic_epochs>>

\* lines 206-210: writer.export_scalars_to_json, writer.close, print
Finalise ==
    /\ pc = "finalise"
    /\ IF writer = "None"
       THEN pc' = "crashed" /\ writer' = writer
       ELSE pc' = "done" /\ writer' = "closed"
    /\ UNCHANGED <<config, phase_idx, epoch, val_acc_history, best_val_acc,
                   val_acc, val_loss, model_state, optimizer_state, save_best,
                   periodic_files, log, written, epochs_run, val_loss_epoch,
                   sched_arg, best_epochs, periodic_epochs, early_stopped>>

Next ==
    \/ Setup
    \/ TrainPhase
    \/ ValidationPhase
    \/ SchedulerStep
    \/ BestCheckpoint
    \/ PeriodicCheckpoint
    \/ EarlyStopping
    \/ Finalise

Spec == Init /\ [][Next]_vars

\* ------------------------------------------------- helpers of the claims

\* largest element of a sequence of naturals, `base` when it is empty
SeqMax(s, base) ==
    IF Len(s) = 0 THEN base
    ELSE CHOOSE m \in {s[i] : i \in 1..Len(s)} : \A j \in 1..Len(s) : s[j] <= m

\* index of the first occurrence of the largest element
FirstMaxIdx(s) ==
    CHOOSE i \in 1..Len(s) :
        /\ s[i] = SeqMax(s, 0)
        /\ \A j \in 1..(i - 1) : s[j] < s[i]

Occurrences(s, x) == Cardinality({i \in 1..Len(s) : s[i] = x})

StrictlyIncreasing(s) == \A i \in 1..(Len(s) - 1) : s[i] < s[i + 1]

\* the loop has been entered
InLoop == Len(epochs_run) > 0

\* the loop has returned to its header and started a further epoch
Continued == pc = "phases" /\ Len(log) = 0 /\ Len(epochs_run) > 1

\* the best-checkpoint block of the last processed epoch has run
BestBlockDone ==
    InLoop /\ pc \in {"periodic", "earlystop", "finalise", "done", "crashed"}

\* the whole body of the last processed epoch, up to the early-stopping test, has run
BodyDone == InLoop /\ pc \in {"earlystop", "finalise", "done", "crashed"}

\* the last k recorded accuracies are all strictly below the largest recorded
WindowBelowBest(h, k) ==
    \A i \in 1..Len(h) : i > Len(h) - k => h[i] < SeqMax(h, 0)

\* the best accuracy was recorded exactly k epochs before the last one and
\* every later epoch is strictly lower
PatienceWindowElapsed(h, k) ==
    /\ Len(h) > k
    /\ h[Len(h) - k] = SeqMax(h, 0)
    /\ \A i \in (Len(h) - k + 1)..Len(h) : h[i] < h[Len(h) - k]

\* version of the model (and of the optimizer counters) at the end of epoch e
VersionAtEndOf(e) == e - config.start_epoch + 1

HoldsStateOfItsEpoch(c) ==
    /\ c.model = VersionAtEndOf(c.epoch)
    /\ c.optimizer = <<VersionAtEndOf(c.epoch), VersionAtEndOf(c.epoch)>>

\* ------------------------------------------------------------------ C1
\* C1: with a validation phase, the loop stops at the end of epoch b+K, where
\* b is the epoch of the best validation accuracy and the K epochs after it
\* are all strictly lower: it does not go on to a further epoch once the
\* window has elapsed, and when it breaks the window has just elapsed.
C1_StopsExactlyAfterPatience ==
    config.has_validation =>
        /\ Continued =>
              ~PatienceWindowElapsed(val_acc_history, config.early_stopping_patience)
        /\ early_stopped =>
              PatienceWindowElapsed(val_acc_history, config.early_stopping_patience)

\* ------------------------------------------------------------------ C2
\* C2: with a validation phase, the loop breaks at the end of an epoch if and
\* only if the last K recorded validation accuracies are all strictly below
\* the best one; it never breaks in an epoch whose accuracy is the best.
C2_StopsIffWindowBelowBest ==
    config.has_validation =>
        /\ early_stopped =>
              /\ WindowBelowBest(val_acc_history, config.early_stopping_patience)
              /\ val_acc < SeqMax(val_acc_history, 0)
        /\ Continued =>
              ~WindowBelowBest(val_acc_history, config.early_stopping_patience)

\* ------------------------------------------------------------------ C3
\* C3 (as stated): once an epoch with a validation phase has completed,
\* save_best.pth exists, holds the state of the earliest epoch with the
\* maximal validation accuracy, and best_val_acc is that maximum.
C3_BestCheckpointAlwaysExists ==
    (BestBlockDone /\ config.has_validation) =>
        /\ save_best # NoFile
        /\ save_best.epoch = config.start_epoch + FirstMaxIdx(val_acc_history) - 1
        /\ HoldsStateOfItsEpoch(save_best)
        /\ best_val_acc = SeqMax(val_acc_history, 0)

\* C3 (amended): best_val_acc is the maximum of 0.0 and the recorded
\* accuracies; when that maximum is above 0.0 save_best.pth holds the state
\* of the earliest epoch that reached it, when every accuracy is 0.0 the file
\* is never written; the file is written in an epoch exactly when the epoch's
\* accuracy exceeds the maximum of 0.0 and the accuracies before it.
C3_BestCheckpointPicked ==
    (BestBlockDone /\ config.has_validation) =>
        /\ best_val_acc = SeqMax(val_acc_history, 0)
        /\ IF SeqMax(val_acc_history, 0) > 0
           THEN /\ save_best # NoFile
                /\ save_best.epoch =
                       config.start_epoch + FirstMaxIdx(val_acc_history) - 1
                /\ HoldsStateOfItsEpoch(save_best)
           ELSE save_best = NoFile
        /\ Occurrences(log, "save_best") =
               IF val_acc_history[Len(val_acc_history)] >
                      SeqMax(SubSeq(val_acc_history, 1, Len(val_acc_history) - 1), 0)
               THEN 1 ELSE 0

\* a tie with an earlier best leaves the earlier epoch's checkpoint in place
C3_Witness ==
    /\ BestBlockDone /\ config.has_validation
    /\ Len(val_acc_history) = 3
    /\ val_acc_history[1] = 2 /\ val_acc_history[2] = 1 /\ val_acc_history[3] = 2
    /\ save_best.epoch = config.start_epoch

\* ------------------------------------------------------------------ C4
\* C4: in every epoch train runs once and before validation, validation runs
\* once when a validation loader is configured and never otherwise, and the
\* history holds one accuracy per validation phase run.
C4_PhaseOrder ==
    InLoop =>
        /\ IF pc = "phases"
           THEN log = SubSeq(<<"train", "validation">>, 1, phase_idx - 1)
           ELSE /\ Len(log) >= (IF config.has_validation THEN 2 ELSE 1)
                /\ log[1] = "train"
                /\ config.has_validation => log[2] = "validation"
        /\ Occurrences(log, "train") <= 1
        /\ Occurrences(log, "validation") <= (IF config.has_validation THEN 1 ELSE 0)
        /\ Len(val_acc_history) =
               IF config.has_validation
               THEN Len(epochs_run) - (IF pc = "phases" THEN 1 ELSE 0)
               ELSE 0

C4_Witness ==
    /\ config.has_validation
    /\ pc = "scheduler"
    /\ Len(epochs_run) = 2
    /\ log = <<"train", "validation">>
    /\ Len(val_acc_history) = 2

\* ------------------------------------------------------------------ C5
\* C5: the scheduler is stepped once per epoch, right after the phases and
\* before any checkpoint; a plateau scheduler gets the validation loss of the
\* same epoch and never runs without a validation phase, a milestone
\* scheduler gets the epoch index.
C5_SchedulerStep ==
    /\ (config.lr_scheduler = "plateau" /\ ~config.has_validation) =>
           pc \in {"setup", "aborted"}
    /\ InLoop =>
        /\ Occurrences(log, "scheduler") =
               IF pc \in {"phases", "scheduler"} THEN 0 ELSE 1
        /\ optimizer_state[2] =
               Len(epochs_run) - (IF pc \in {"phases", "scheduler"} THEN 1 ELSE 0)
        /\ Occurrences(log, "scheduler") = 1 =>
              /\ log[(IF config.has_validation THEN 2 ELSE 1) + 1] = "scheduler"
              /\ IF config.lr_scheduler = "plateau"
                 THEN /\ sched_arg = <<"plateau", val_loss>>
                      /\ val_loss # Undef
                      /\ val_loss_epoch = epoch
                 ELSE sched_arg = <<"multistep", epoch>>

C5_Witness ==
    /\ config.lr_scheduler = "plateau"
    /\ pc = "best"
    /\ Len(epochs_run) = 2
    /\ sched_arg = <<"plateau", 1>>
    /\ epoch = 2

\* ------------------------------------------------------------------ C6
\* C6: a periodic checkpoint is written at the end of epoch e exactly when e
\* is a multiple of checkpoint_frequency, consecutive periodic checkpoints
\* are checkpoint_frequency epochs apart, and pruning runs right after every
\* periodic save and at no other time.
C6_PeriodicCheckpoint ==
    /\ BodyDone =>
           Occurrences(log, "save_periodic") =
               IF epoch % config.checkpoint_frequency = 0 THEN 1 ELSE 0
    /\ \A i \in 1..Len(log) :
           /\ log[i] = "save_periodic" => (i < Len(log) /\ log[i + 1] = "cleanup")
           /\ log[i] = "cleanup" => (i > 1 /\ log[i - 1] = "save_periodic")
    /\ \A i \in 1..(Len(periodic_epochs) - 1) :
           periodic_epochs[i + 1] - periodic_epochs[i] = config.checkpoint_frequency
    /\ \A i \in 1..Len(periodic_epochs) :
           periodic_epochs[i] % config.checkpoint_frequency = 0

C6_Witness ==
    /\ pc = "earlystop"
    /\ config.checkpoint_frequency = 2
    /\ periodic_epochs = <<2, 4>>
    /\ log[Len(log)] = "cleanup"

\* ------------------------------------------------------------------ C7
\* C7: every checkpoint written holds the epoch number and the model and
\* optimizer states as they are at the end of that epoch, and a best and a
\* periodic checkpoint of the same epoch have the same content.
C7_CheckpointConsistent ==
    /\ \A i \in 1..Len(written) :
           written[i] = [epoch |-> epoch, model |-> model_state,
                         optimizer |-> optimizer_state]
    /\ \A i, j \in 1..Len(written) : written[i] = written[j]
    /\ save_best # NoFile => HoldsStateOfItsEpoch(save_best)
    /\ \A f \in periodic_files : HoldsStateOfItsEpoch(f.ckpt)

C7_Witness ==
    /\ Len(written) = 2
    /\ Len(epochs_run) = 3
    /\ save_best.epoch = epoch
    /\ \E f \in periodic_files : f.ckpt = save_best

\* ------------------------------------------------------------------ C8
\* C8: the loop processes start_epoch first, then each time the next index,
\* never an index above num_epochs, and the epochs stored in successive
\* checkpoints of one kind strictly increase.
C8_EpochMonotonic ==
    /\ InLoop =>
        /\ epochs_run[1] = config.start_epoch
        /\ epoch = epochs_run[Len(epochs_run)]
    /\ \A i \in 1..(Len(epochs_run) - 1) : epochs_run[i + 1] = epochs_run[i] + 1
    /\ \A i \in 1..Len(epochs_run) : epochs_run[i] <= config.num_epochs
    /\ StrictlyIncreasing(best_epochs)
    /\ StrictlyIncreasing(periodic_epochs)

C8_Witness ==
    /\ Len(epochs_run) = 4
    /\ epoch = config.num_epochs
    /\ Len(best_epochs) = 2
    /\ Len(periodic_epochs) = 2

\* ------------------------------------------------------------------ C9
\* C9: without a validation loader the loop never breaks early: it runs
\* train_epoch for every epoch from start_epoch through num_epochs.
C9_NoValidationNeverStops ==
    ~config.has_validation =>
        /\ ~early_stopped
        /\ (InLoop /\ pc \in {"finalise", "done", "crashed"}) =>
               epoch = config.num_epochs

\* ----------------------------------------------------------------- C10
\* C10: a run that gets past setup processes at most
\* num_epochs - start_epoch + 1 epochs and its finalisation completes
\* without an error, with or without a TensorBoard writer.
C10_FinalisationCompletes ==
    /\ pc # "crashed"
    /\ Len(epochs_run) <= config.num_epochs - config.start_epoch + 1
           \/ Len(epochs_run) = 0

====
